---------------------------- MODULE Spec2Model ----------------------------
(***************************************************************************)
(* Model of testeESP32.py: the host side of a UDP data-acquisition bridge. *)
(* main() binds a receiving socket, prepares the CSV log, sends            *)
(* START_ACQUISITION:<ms>, then loops (deadline check, receive with 1 s    *)
(* timeout, parse, append) until the safety deadline, an interruption or   *)
(* an escaping error, and finally sends STOP_ACQUISITION and closes the    *)
(* socket.                                                                 *)
(*                                                                         *)
(* Text is modelled as a sequence of tokens.  A token is a maximal run of  *)
(* characters of one kind: a key name, a numeral, a word, or one of the    *)
(* separators ":" "," and the whitespace characters.  Two numerals or two  *)
(* words are never adjacent in a text.                                     *)
(***************************************************************************)
EXTENDS Integers, Sequences, FiniteSets, TLC

(***************************************************************************)
(* Bounds of the model.                                                    *)
(***************************************************************************)
\* data rows the log may hold before the device stops sending
MaxRows == 2
\* successive runs of the script against the same file path
MaxRuns == 2
\* seconds the process takes from its start to line 200
StartupSeconds == 1

(***************************************************************************)
(* Program constants.                                                      *)
(***************************************************************************)
ACQUISITION_DURATION_SECONDS == 20
\* the margin added to the duration in the safety deadline (line 207)
SAFETY_MARGIN_SECONDS == 5
\* sock_data.settimeout(1.0) (line 186)
RECV_TIMEOUT_SECONDS == 1
\* duration_ms = ACQUISITION_DURATION_SECONDS * 1000 (line 192)
MS_PER_SECOND == 1000

CSV_HEADER == <<"Tempo_ms", "Tensao", "Corrente", "Rotacao">>

VARIABLES
    pc,                             \* position of main()
    run,                            \* which run of the script this is
    clock,                          \* time.time(), seconds since the process started
    python_script_start_time,       \* line 200
    last_received_timestamp_esp32,  \* line 202
    message,                        \* the local `message`: <<>> while unbound, else <<text>>
    sock_data,                      \* "none", "created", "bound" or "closed"
    csv_exists,                     \* os.path.isfile(CSV_FILENAME)
    csv_lines,                      \* the lines of the file CSV_FILENAME
    sent,                           \* commands handed to sendto in this run, with the outcome
    closes,                         \* number of sock_data.close() calls in this run
    received,                       \* <<d>> when the last step received datagram d, else <<>>
    console,                        \* what the last step printed
    exit,                           \* how main() ended or is ending
    any_accepted                    \* history: a record passed line 232 in this session

vars == <<pc, run, clock, python_script_start_time, last_received_timestamp_esp32,
          message, sock_data, csv_exists, csv_lines, sent, closes, received,
          console, exit, any_accepted>>

(***************************************************************************)
(* Text: strip, split, substring test, int() and float().                  *)
(***************************************************************************)
Whitespace == {" ", "\n"}

RECURSIVE LStrip(_)
LStrip(s) ==
    IF s # <<>> /\ Head(s) \in Whitespace THEN LStrip(Tail(s)) ELSE s

RECURSIVE RStrip(_)
RStrip(s) ==
    IF s # <<>> /\ s[Len(s)] \in Whitespace
    THEN RStrip(SubSeq(s, 1, Len(s) - 1))
    ELSE s

\* str.strip()
Strip(s) == RStrip(LStrip(s))

\* str.split(sep): the pieces between the separators; never empty
RECURSIVE SplitFrom(_, _, _)
SplitFrom(s, sep, cur) ==
    IF s = <<>> THEN <<cur>>
    ELSE IF Head(s) = sep THEN <<cur>> \o SplitFrom(Tail(s), sep, <<>>)
    ELSE SplitFrom(Tail(s), sep, Append(cur, Head(s)))

Split(s, sep) == SplitFrom(s, sep, <<>>)

\* "<key>:" in part  -- a substring test
HasKey(part, key) ==
    \E i \in 1..(Len(part) - 1) : part[i] = key /\ part[i + 1] = ":"

\* part.split(':')[1]
ValueText(part) == Split(part, ":")[2]

\* numerals of the model and their values; floats are kept in tenths
IntLiterals == {"1", "2", "-1"}
FloatLiterals == IntLiterals \cup {"2.5", "2.50"}

IntOf(tok) ==
    CASE tok = "1" -> 1
      [] tok = "2" -> 2
      [] tok = "-1" -> -1

TenthsOf(tok) ==
    CASE tok \in IntLiterals -> 10 * IntOf(tok)
      [] tok = "2.5" -> 25
      [] tok = "2.50" -> 25

\* int(text) succeeds: surrounding whitespace is accepted, an integer numeral is required
IsInt(text) == Len(Strip(text)) = 1 /\ Strip(text)[1] \in IntLiterals
ParseInt(text) == IntOf(Strip(text)[1])

\* float(text) succeeds
IsFloat(text) == Len(Strip(text)) = 1 /\ Strip(text)[1] \in FloatLiterals
ParseFloat(text) == TenthsOf(Strip(text)[1])


(***************************************************************************)
(* The record parser of the loop body (lines 216-232).  A Python variable  *)
(* that may be None is <<>> for None and <<v>> for the value v.            *)
(***************************************************************************)
None == <<>>
Some(v) == <<v>>

\* lines 217-220
NoFields == [timestamp_esp32 |-> None, tensao |-> None, corrente |-> None, rotacao |-> None]

\* the test of one branch of the if/elif chain, lines 223-229
Matches(part, key) == HasKey(part, key)

\* which branch of the if/elif chain of lines 223-230 takes the part ("" for none)
Branch(part) ==
    IF Matches(part, "Tempo_ms") THEN "Tempo_ms"
    ELSE IF Matches(part, "Tensao") THEN "Tensao"
    ELSE IF Matches(part, "Corrente") THEN "Corrente"
    ELSE IF Matches(part, "Rotacao") THEN "Rotacao"
    ELSE ""

\* int() or float() of the branch raises ValueError on this part
PartRaises(part) ==
    CASE Branch(part) \in {"Tempo_ms", "Rotacao"} -> ~IsInt(ValueText(part))
      [] Branch(part) \in {"Tensao", "Corrente"} -> ~IsFloat(ValueText(part))
      [] OTHER -> FALSE

\* one pass of the loop body of lines 222-230 that does not raise
ParsePart(f, part) ==
    CASE Branch(part) = "Tempo_ms" ->
            [f EXCEPT !.timestamp_esp32 = Some(ParseInt(ValueText(part)))]
      [] Branch(part) = "Tensao" ->
            [f EXCEPT !.tensao = Some(ParseFloat(ValueText(part)))]
      [] Branch(part) = "Corrente" ->
            [f EXCEPT !.corrente = Some(ParseFloat(ValueText(part)))]
      [] Branch(part) = "Rotacao" ->
            [f EXCEPT !.rotacao = Some(ParseInt(ValueText(part)))]
      [] OTHER -> f

\* the for loop of lines 222-230: the fields extracted, or raised = TRUE at the first
\* part whose conversion raises
RECURSIVE ParseParts(_, _)
ParseParts(f, parts) ==
    IF parts = <<>> THEN [raised |-> FALSE, fields |-> f]
    ELSE IF PartRaises(Head(parts)) THEN [raised |-> TRUE, fields |-> f]
    ELSE ParseParts(ParsePart(f, Head(parts)), Tail(parts))

\* lines 216-230 on the stripped message
ParseMessage(text) == ParseParts(NoFields, Split(text, ","))

\* the test of rotacao forgotten
AllExtractedButRotacao(f) ==
    /\ f.timestamp_esp32 # None
    /\ f.tensao # None
    /\ f.corrente # None

\* line 232
AllExtracted(f) ==
    /\ f.timestamp_esp32 # None
    /\ f.tensao # None
    /\ f.corrente # None
    /\ f.rotacao # None

\* line 234
OutOfOrder(ts, last) == ts <= last /\ last # -1

\* str() of an int and repr() of a float (in tenths), as csv.writer writes them
FormatInt(n) ==
    CASE n = 1 -> "1"
      [] n = 2 -> "2"
      [] n = -1 -> "-1"

FormatFloat(t) ==
    CASE t = 10 -> "1.0"
      [] t = 20 -> "2.0"
      [] t = -10 -> "-1.0"
      [] t = 25 -> "2.5"

\* csv.writer writes None as the empty string
IntCell(v) == IF v = None THEN "" ELSE FormatInt(v[1])
FloatCell(v) == IF v = None THEN "" ELSE FormatFloat(v[1])

\* the line csv_writer.writerow writes for [timestamp_esp32, tensao, corrente, rotacao],
\* line 240
Row(f) ==
    <<IntCell(f.timestamp_esp32), FloatCell(f.tensao), FloatCell(f.corrente),
      IntCell(f.rotacao)>>

(***************************************************************************)
(* The datagrams the device (or anyone else on the network) may send.      *)
(***************************************************************************)
Seg(key, val) == <<key, ":", val>>

RECURSIVE Join(_)
Join(segs) ==
    IF segs = <<>> THEN <<>>
    ELSE IF Len(segs) = 1 THEN segs[1]
    ELSE segs[1] \o <<",">> \o Join(Tail(segs))

Text(segs) == [utf8 |-> TRUE, text |-> Join(segs)]

ValidSegs(ts) ==
    <<Seg("Tempo_ms", ts), Seg("Tensao", "2.5"), Seg("Corrente", "1"), Seg("Rotacao", "2")>>

\* "Tempo_ms:<ts>,Tensao:2.5,Corrente:1,Rotacao:2"
Valid(ts) == Text(ValidSegs(ts))

\* "Rotacao:2,Corrente:1,Tensao:2.50,Tempo_ms:1\n"
Permuted ==
    [utf8 |-> TRUE,
     text |-> Join(<<Seg("Rotacao", "2"), Seg("Corrente", "1"),
                     Seg("Tensao", "2.50"), Seg("Tempo_ms", "1")>>) \o <<"\n">>]

\* "Tempo_ms:2,Tensao:2.5,Corrente:1": Rotacao is missing
MissingKeys == Text(<<Seg("Tempo_ms", "2"), Seg("Tensao", "2.5"), Seg("Corrente", "1")>>)

\* "Tempo_ms:1,xTensao:2.5,Corrente:1,Rotacao:2": no segment has the key Tensao
AlmostKey ==
    Text(<<Seg("Tempo_ms", "1"), <<"x">> \o Seg("Tensao", "2.5"),
           Seg("Corrente", "1"), Seg("Rotacao", "2")>>)

\* "Tempo_ms:1,Tensao:2.5,Corrente:1,Rotacao:2,xTempo_ms:2"
AlmostKeyAdded == Text(ValidSegs("1") \o <<<<"x">> \o Seg("Tempo_ms", "2")>>)

\* "Tempo_ms:2,Tensao:2.5,Corrente:1,Rotacao:2,Foo:1,junk"
ExtraSegments == Text(ValidSegs("2") \o <<Seg("Foo", "1"), <<"junk">>>>)

\* "Tempo_ms:1,Tensao:2.5,Corrente:1,Rotacao:2.5": int("2.5") raises ValueError
BadValue ==
    Text(<<Seg("Tempo_ms", "1"), Seg("Tensao", "2.5"), Seg("Corrente", "1"),
           Seg("Rotacao", "2.5")>>)

\* bytes that are not UTF-8: data.decode('utf-8') raises UnicodeDecodeError
NotUtf8 == [utf8 |-> FALSE, text |-> <<"?">>]

Datagrams ==
    {Valid("1"), Valid("-1"), Permuted, MissingKeys, AlmostKey, AlmostKeyAdded,
     ExtraSegments, BadValue, NotUtf8}


(***************************************************************************)
(* Console output: the lines a step prints.                                *)
(***************************************************************************)
Line(kind, text) == [kind |-> kind, text |-> text]

\* line 235
OutOfOrderWarning(ts, last) == Line("AVISO: Pacote fora de ordem ou duplicado",
                                    <<FormatInt(ts), FormatInt(last)>>)
\* line 243
MalformedWarning(text) == Line("Aviso: Mensagem incompleta/malformada", text)
\* line 246
NoDataNotice == Line("Nenhum dado recebido no ultimo segundo", <<>>)
\* line 249
ProcessingError == Line("Erro ao processar dados recebidos", <<>>)
\* line 250
RawMessage(text) == Line("Mensagem bruta que causou o erro", text)
\* line 208
DeadlineNotice == Line("AVISO: Tempo limite de espera do Python excedido", <<>>)
\* line 253
InterruptedNotice == Line("Programa encerrado pelo usuario", <<>>)
\* line 255
GeneralError == Line("Ocorreu um erro geral", <<>>)
\* line 259
SocketClosedNotice == Line("Socket de dados fechado", <<>>)
\* line 83
CommandSentNotice == Line("Comando enviado para ESP32", <<>>)
\* line 85
CommandErrorNotice == Line("Erro ao enviar comando para o ESP32", <<>>)

(***************************************************************************)
(* setup_csv_file (lines 44-51) and the append of one row (lines 238-240). *)
(***************************************************************************)
\* the header written whether or not the file existed
SetupCsvLinesAlways(exists, lines) == Append(lines, CSV_HEADER)

\* the file after setup_csv_file: open(..., 'a') creates it, the header is written
\* only when the file did not exist
SetupCsvLines(exists, lines) ==
    IF ~exists THEN Append(lines, CSV_HEADER) ELSE lines

\* a row equal to one already in the file is not written again
AppendRowDeduplicated(lines, row) ==
    IF \E i \in DOMAIN lines : lines[i] = row THEN lines ELSE Append(lines, row)

\* the file after open(..., 'a') and writerow(row)
AppendRow(lines, row) == Append(lines, row)

(***************************************************************************)
(* The commands of the protocol.                                           *)
(***************************************************************************)
\* lines 192-193: f"START_ACQUISITION:{duration_ms}"
StartCommand ==
    [name |-> "START_ACQUISITION",
     duration_ms |-> Some(ACQUISITION_DURATION_SECONDS * MS_PER_SECOND)]
\* line 257
StopCommand == [name |-> "STOP_ACQUISITION", duration_ms |-> None]

\* a failed sendto attempted a second time
SendCommandRetrying(log, command, ok) ==
    IF ok THEN Append(log, [command |-> command, ok |-> ok])
    ELSE Append(Append(log, [command |-> command, ok |-> ok]),
                [command |-> command, ok |-> ok])

\* send_command_to_esp32 (lines 80-87): one sendto, whose failure is caught and printed
SendCommand(log, command, ok) == Append(log, [command |-> command, ok |-> ok])

\* lines 83 and 85: what send_command_to_esp32 prints
SendReport(ok) == IF ok THEN <<CommandSentNotice>> ELSE <<CommandErrorNotice>>

\* the tracker assigned after the row is written
UpdatedTrackerAfterAppend(accepted, appendOk, ts, last) ==
    IF accepted /\ appendOk THEN ts ELSE last

\* line 236, which runs before the append of lines 238-240
UpdatedTracker(accepted, appendOk, ts, last) == IF accepted THEN ts ELSE last

\* the loop left as soon as the limit is reached, not only when it is passed
DeadlineExceededAtLimit(now, start) ==
    (now - start) >= (ACQUISITION_DURATION_SECONDS + SAFETY_MARGIN_SECONDS)

\* the margin counted twice
DeadlineExceededLate(now, start) ==
    (now - start) > (ACQUISITION_DURATION_SECONDS + 2 * SAFETY_MARGIN_SECONDS)

\* line 207
DeadlineExceeded(now, start) ==
    (now - start) > (ACQUISITION_DURATION_SECONDS + SAFETY_MARGIN_SECONDS)

(***************************************************************************)
(* Initial state: no run has started and no file exists at CSV_FILENAME.   *)
(***************************************************************************)
Init ==
    /\ pc = "idle"
    /\ run = 1
    /\ clock = 0
    /\ python_script_start_time = 0
    /\ last_received_timestamp_esp32 = -1
    /\ message = None
    /\ sock_data = "none"
    /\ csv_exists = FALSE
    /\ csv_lines = <<>>
    /\ sent = <<>>
    /\ closes = 0
    /\ received = None
    /\ console = <<>>
    /\ exit = "running"
    /\ any_accepted = FALSE


(***************************************************************************)
(* One pass of the inner try (lines 212-250) on a received datagram d,     *)
(* with `message` = msg and last_received_timestamp_esp32 = last before    *)
(* it, the file holding `lines`; appendOk tells whether open()/writerow of *)
(* lines 238-240 succeed.  escaped: the handler of lines 248-250 itself    *)
(* raised (line 250 reads `message` while it is unbound).                  *)
(***************************************************************************)
\* lines 213-230 on each datagram of the model
Parsed == [d \in Datagrams |-> ParseMessage(Strip(d.text))]

Iteration(d, msg, last, lines, appendOk) ==
    LET decoded  == d.utf8                                    \* line 213 does not raise
        text     == Strip(d.text)                             \* line 213
        msg1     == IF decoded THEN Some(text) ELSE msg
        parsed   == Parsed[d]                                 \* lines 216-230
        f        == parsed.fields
        accepted == decoded /\ ~parsed.raised /\ AllExtracted(f)   \* line 232
        ts       == f.timestamp_esp32[1]
        warning  == IF OutOfOrder(ts, last)                   \* lines 234-235
                    THEN <<OutOfOrderWarning(ts, last)>> ELSE <<>>
        raised   == ~decoded \/ parsed.raised \/ (accepted /\ ~appendOk)
        printed  == IF accepted THEN warning
                    ELSE IF raised THEN <<>>
                    ELSE <<MalformedWarning(text)>>           \* line 243
        handler  == IF ~raised THEN <<>>                      \* lines 248-250
                    ELSE IF msg1 = None THEN <<ProcessingError>>
                    ELSE <<ProcessingError, RawMessage(msg1[1])>>
    IN  [message |-> msg1,
         last    |-> UpdatedTracker(accepted, appendOk, ts, last),   \* line 236
         lines   |-> IF accepted /\ appendOk                  \* lines 238-240
                     THEN AppendRow(lines, Row(f)) ELSE lines,
         accepted |-> accepted,
         console |-> printed \o handler,
         escaped |-> raised /\ msg1 = None]

(***************************************************************************)
(* main(), lines 184-259.                                                  *)
(***************************************************************************)
\* main() is left: its locals and the process's clock are gone
ProcessEnds ==
    /\ pc' = "exited"
    /\ clock' = 0
    /\ python_script_start_time' = 0
    /\ last_received_timestamp_esp32' = -1
    /\ message' = None

\* lines 184-188: the socket is created, bound and given its timeout
BindOk ==
    /\ pc = "idle"
    /\ sock_data' = "bound"
    /\ pc' = "bound"
    /\ console' = <<>>
    /\ UNCHANGED <<run, clock, python_script_start_time, last_received_timestamp_esp32,
                   message, csv_exists, csv_lines, sent, closes, received, exit, any_accepted>>

\* setup_csv_file() called before the bind
BindFailsAfterSetup ==
    /\ pc = "idle"
    /\ sock_data' = "created"
    /\ csv_lines' = SetupCsvLines(csv_exists, csv_lines)
    /\ csv_exists' = TRUE
    /\ ProcessEnds
    /\ exit' = "bind_error"
    /\ console' = <<>>
    /\ UNCHANGED <<run, sent, closes, received, any_accepted>>

\* line 185 raises OSError: the exception leaves main
BindFails ==
    /\ pc = "idle"
    /\ sock_data' = "created"
    /\ ProcessEnds
    /\ exit' = "bind_error"
    /\ console' = <<>>
    /\ UNCHANGED <<run, csv_exists, csv_lines, sent, closes, received, any_accepted>>

\* line 189
SetupCsvFile ==
    /\ pc = "bound"
    /\ csv_lines' = SetupCsvLines(csv_exists, csv_lines)
    /\ csv_exists' = TRUE
    /\ pc' = "csvready"
    /\ console' = <<>>
    /\ UNCHANGED <<run, clock, python_script_start_time, last_received_timestamp_esp32,
                   message, sock_data, sent, closes, received, exit, any_accepted>>

\* line 189, open() raises OSError: the exception leaves main
SetupCsvFileFails ==
    /\ pc = "bound"
    /\ ProcessEnds
    /\ exit' = "setup_error"
    /\ console' = <<>>
    /\ UNCHANGED <<run, sock_data, csv_exists, csv_lines,
                   sent, closes, received, any_accepted>>

\* the loop entered without the call of line 194
SendStartSkipped(ok) ==
    /\ pc = "csvready"
    /\ sent' = sent
    /\ clock' = clock + StartupSeconds
    /\ python_script_start_time' = clock'
    /\ last_received_timestamp_esp32' = -1
    /\ pc' = "check"
    /\ console' = SendReport(ok)
    /\ UNCHANGED <<run, message, sock_data, csv_exists, csv_lines, closes, received, exit,
                   any_accepted>>

\* lines 192-202: START is sent (or the send fails), the start time is taken
SendStart(ok) ==
    /\ pc = "csvready"
    /\ sent' = SendCommand(sent, StartCommand, ok)
    /\ clock' = clock + StartupSeconds
    /\ python_script_start_time' = clock'
    /\ last_received_timestamp_esp32' = -1
    /\ pc' = "check"
    /\ console' = SendReport(ok)
    /\ UNCHANGED <<run, message, sock_data, csv_exists, csv_lines, closes, received, exit,
                   any_accepted>>

\* lines 207-209: the deadline has passed
DeadlineReached ==
    /\ pc = "check"
    /\ DeadlineExceeded(clock, python_script_start_time)
    /\ pc' = "finally"
    /\ exit' = "deadline"
    /\ console' = <<DeadlineNotice>>
    /\ received' = None
    /\ UNCHANGED <<run, clock, python_script_start_time, last_received_timestamp_esp32,
                   message, sock_data, csv_exists, csv_lines, sent, closes, any_accepted>>

\* line 207: the deadline has not passed
DeadlineNotReached ==
    /\ pc = "check"
    /\ ~DeadlineExceeded(clock, python_script_start_time)
    /\ pc' = "recv"
    /\ console' = <<>>
    /\ received' = None
    /\ UNCHANGED <<run, clock, python_script_start_time, last_received_timestamp_esp32,
                   message, sock_data, csv_exists, csv_lines, sent, closes, exit, any_accepted>>

\* a silent second forgets the last accepted timestamp
RecvTimeoutResetsTracker ==
    /\ pc = "recv"
    /\ clock' = clock + RECV_TIMEOUT_SECONDS
    /\ console' = <<NoDataNotice>>
    /\ received' = None
    /\ pc' = "check"
    /\ last_received_timestamp_esp32' = -1
    /\ UNCHANGED <<run, python_script_start_time,
                   message, sock_data, csv_exists, csv_lines, sent, closes, exit, any_accepted>>

\* lines 212, 245-247: nothing arrives within the timeout
RecvTimeout ==
    /\ pc = "recv"
    /\ clock' = clock + RECV_TIMEOUT_SECONDS
    /\ console' = <<NoDataNotice>>
    /\ received' = None
    /\ pc' = "check"
    /\ UNCHANGED <<run, python_script_start_time, last_received_timestamp_esp32,
                   message, sock_data, csv_exists, csv_lines, sent, closes, exit, any_accepted>>

\* the outer handlers and what follows an inner pass: an exception that left the inner
\* try is caught at line 254 and main goes to the finally block
AfterIteration(escaped, printed) ==
    IF escaped
    THEN /\ pc' = "finally"
         /\ exit' = "error"
         /\ console' = printed \o <<GeneralError>>
    ELSE /\ pc' = "check"
         /\ exit' = exit
         /\ console' = printed

\* line 212 raises an OSError other than the timeout; lines 248-250 handle it
RecvFails(dt) ==
    /\ pc = "recv"
    /\ clock' = clock + dt
    /\ received' = None
    /\ AfterIteration(message = None,
                      IF message = None THEN <<ProcessingError>>
                      ELSE <<ProcessingError, RawMessage(message[1])>>)
    /\ UNCHANGED <<run, python_script_start_time, last_received_timestamp_esp32,
                   message, sock_data, csv_exists, csv_lines, sent, closes, any_accepted>>

\* lines 212-250: a datagram arrives within the timeout and is processed
RecvDatagram(d, dt, appendOk) ==
    /\ pc = "recv"
    /\ Len(csv_lines) < 1 + MaxRows
    /\ LET it == Iteration(d, message, last_received_timestamp_esp32, csv_lines, appendOk)
       IN  /\ message' = it.message
           /\ last_received_timestamp_esp32' = it.last
           /\ csv_lines' = it.lines
           /\ any_accepted' = (any_accepted \/ it.accepted)
           /\ AfterIteration(it.escaped, it.console)
    /\ clock' = clock + dt
    /\ received' = Some(d)
    /\ UNCHANGED <<run, python_script_start_time, sock_data, csv_exists, sent, closes>>

\* Ctrl+C between the bind and the try of line 204: KeyboardInterrupt leaves main
InterruptBeforeTry ==
    /\ pc \in {"bound", "csvready"}
    /\ ProcessEnds
    /\ exit' = "interrupt_escaped"
    /\ console' = <<>>
    /\ UNCHANGED <<run, sock_data, csv_exists, csv_lines,
                   sent, closes, received, any_accepted>>

\* Ctrl+C inside the try: lines 252-253
InterruptInLoop ==
    /\ pc \in {"check", "recv"}
    /\ pc' = "finally"
    /\ exit' = "interrupt"
    /\ console' = <<InterruptedNotice>>
    /\ received' = None
    /\ UNCHANGED <<run, clock, python_script_start_time, last_received_timestamp_esp32,
                   message, sock_data, csv_exists, csv_lines, sent, closes, any_accepted>>

\* Ctrl+C inside the finally block: KeyboardInterrupt leaves main
InterruptInFinally ==
    /\ pc \in {"finally", "closing"}
    /\ ProcessEnds
    /\ exit' = "interrupt_escaped"
    /\ console' = <<>>
    /\ UNCHANGED <<run, sock_data, csv_exists, csv_lines,
                   sent, closes, received, any_accepted>>

\* line 257
SendStop(ok) ==
    /\ pc = "finally"
    /\ sent' = SendCommand(sent, StopCommand, ok)
    /\ pc' = "closing"
    /\ console' = SendReport(ok)
    /\ UNCHANGED <<run, clock, python_script_start_time, last_received_timestamp_esp32,
                   message, sock_data, csv_exists, csv_lines, closes, received, exit, any_accepted>>

\* lines 258-259
CloseSocket ==
    /\ pc = "closing"
    /\ sock_data' = "closed"
    /\ closes' = closes + 1
    /\ ProcessEnds
    /\ console' = <<SocketClosedNotice>>
    /\ UNCHANGED <<run, csv_exists, csv_lines, sent, received, exit, any_accepted>>

\* the script is started again (lines 261-262); only the file survives the process
NewRun ==
    /\ pc = "exited"
    /\ run < MaxRuns
    /\ run' = run + 1
    /\ pc' = "idle"
    /\ clock' = 0
    /\ python_script_start_time' = 0
    /\ last_received_timestamp_esp32' = -1
    /\ message' = None
    /\ sock_data' = "none"
    /\ sent' = <<>>
    /\ closes' = 0
    /\ received' = None
    /\ console' = <<>>
    /\ exit' = "running"
    /\ any_accepted' = FALSE
    /\ UNCHANGED <<csv_exists, csv_lines>>

\* one step of main, or the next run, the network sending datagrams of the set D
Step(D) ==
    \/ BindOk
    \/ BindFails
    \/ SetupCsvFile
    \/ SetupCsvFileFails
    \/ \E ok \in BOOLEAN : SendStart(ok)
    \/ DeadlineReached
    \/ DeadlineNotReached
    \/ RecvTimeout
    \/ \E dt \in 0..RECV_TIMEOUT_SECONDS : RecvFails(dt)
    \/ \E d \in D, dt \in 0..RECV_TIMEOUT_SECONDS, appendOk \in BOOLEAN :
          RecvDatagram(d, dt, appendOk)
    \/ InterruptBeforeTry
    \/ InterruptInLoop
    \/ InterruptInFinally
    \/ \E ok \in BOOLEAN : SendStop(ok)
    \/ CloseSocket
    \/ NewRun

Next == Step(Datagrams)

Spec == Init /\ [][Next]_vars


(***************************************************************************)
(* The session loop under the assumption that time passes: the deadline    *)
(* check is taken when it is due, and receive attempts that take time      *)
(* keep happening (a receive that times out always takes time).            *)
(***************************************************************************)
\* one datagram of each kind: accepted, incomplete, undecodable
TimingDatagrams == {Valid("1"), MissingKeys, NotUtf8}

ClockAdvances ==
    \/ RecvTimeout
    \/ \E dt \in 1..RECV_TIMEOUT_SECONDS : RecvFails(dt)
    \/ \E d \in TimingDatagrams, dt \in 1..RECV_TIMEOUT_SECONDS, appendOk \in BOOLEAN :
          RecvDatagram(d, dt, appendOk)

LiveNext == Step(TimingDatagrams)

LiveSpec ==
    /\ Init
    /\ [][LiveNext]_vars
    /\ WF_vars(DeadlineReached)
    /\ WF_vars(DeadlineNotReached)
    /\ SF_vars(ClockAdvances)

(***************************************************************************)
(* Vocabulary of the properties.                                           *)
(***************************************************************************)
Listening == pc \in {"check", "recv"}
Terminated == pc \in {"finally", "closing", "exited"}

\* the receiving endpoint was bound in this run
WasBound == sock_data \in {"bound", "closed"}

\* STOP_ACQUISITION commands handed to the sender in this run
StopsSent == Cardinality({i \in DOMAIN sent : sent[i].command = StopCommand})

\* seconds since the loop was entered
Elapsed == clock - python_script_start_time

Printed(line) == \E i \in DOMAIN console : console[i] = line
PrintedKind(kind) == \E i \in DOMAIN console : console[i].kind = kind

\* the data rows of the log
DataRows == {i \in DOMAIN csv_lines : i >= 2}

IntCells == {FormatInt(n) : n \in {IntOf(t) : t \in IntLiterals}}
FloatCells == {FormatFloat(n) : n \in {TenthsOf(t) : t \in FloatLiterals}}

(***************************************************************************)
(* C1.  Every run in which the receiving endpoint was bound ends with      *)
(* exactly one STOP_ACQUISITION sent and the endpoint closed exactly once, *)
(* whether the loop ended by the deadline, by an interruption (wherever it *)
(* arrived) or by an escaping error.                                       *)
(***************************************************************************)
C1_StopAndReleaseOnEveryExit ==
    (/\ pc = "exited"
     /\ WasBound
     /\ exit \in {"deadline", "interrupt", "error", "interrupt_escaped"})
    => (StopsSent = 1 /\ closes = 1)

(***************************************************************************)
(* C2.  While time passes, the session is never Listening later than       *)
(* duration + 5 s + one receive timeout after the loop was entered, and    *)
(* every Listening session becomes Terminated, whatever arrives.           *)
(***************************************************************************)
C2_Bound == ACQUISITION_DURATION_SECONDS + SAFETY_MARGIN_SECONDS + RECV_TIMEOUT_SECONDS

C2_TerminatesWithinDeadline ==
    /\ [](pc \in {"check", "recv", "finally", "closing"} => Elapsed <= C2_Bound)
    /\ (Listening ~> Terminated)

\* the deadline ends a session in which nothing was ever decoded, at the latest moment
C2_Witness ==
    /\ pc = "finally"
    /\ exit = "deadline"
    /\ Elapsed = C2_Bound
    /\ message = None
    /\ Len(csv_lines) = 1

(***************************************************************************)
(* C3.  A failure while receiving, decoding, parsing or persisting one     *)
(* datagram never ends the session: after the handler of lines 248-250 was *)
(* entered, main is at the next deadline check.                            *)
(***************************************************************************)
C3_DatagramFailureNeverTerminates ==
    Printed(ProcessingError) => pc = "check"

(***************************************************************************)
(* C4.  Every data row of the log has four parsed fields (an integer, two  *)
(* floats, an integer), and a row is only ever appended by a step that     *)
(* received a datagram, each cell being the value of a segment of that     *)
(* datagram that holds the column's key.                                   *)
(***************************************************************************)
C4_CellFrom(parts, key, cell) ==
    \E i \in DOMAIN parts :
        LET part == parts[i]
        IN  /\ HasKey(part, key)
            /\ IF key \in {"Tempo_ms", "Rotacao"}
               THEN IsInt(ValueText(part)) /\ cell = FormatInt(ParseInt(ValueText(part)))
               ELSE IsFloat(ValueText(part)) /\ cell = FormatFloat(ParseFloat(ValueText(part)))

C4_RowFrom(d, row) ==
    /\ d.utf8
    /\ \A c \in 1..4 : C4_CellFrom(Split(Strip(d.text), ","), CSV_HEADER[c], row[c])

\* for each datagram of the model, the rows that are made of its segments' values
C4_RowsOf ==
    [d \in Datagrams |->
        {row \in IntCells \X FloatCells \X FloatCells \X IntCells : C4_RowFrom(d, row)}]

C4_RowsFullyParsed ==
    /\ [](\A i \in DataRows :
            /\ Len(csv_lines[i]) = 4
            /\ csv_lines[i][1] \in IntCells
            /\ csv_lines[i][2] \in FloatCells
            /\ csv_lines[i][3] \in FloatCells
            /\ csv_lines[i][4] \in IntCells)
    /\ [][(pc = "recv" /\ csv_lines' # csv_lines)
            => /\ received' # None
               /\ csv_lines' = Append(csv_lines, csv_lines'[Len(csv_lines')])
               /\ csv_lines'[Len(csv_lines')] \in C4_RowsOf[received'[1]]]_vars

\* a row was just appended from a datagram whose segments are not in column order
C4_Witness ==
    /\ received = Some(Permuted)
    /\ Len(csv_lines) = 3
    /\ csv_lines[3] = <<"1", "2.5", "1.0", "2">>


(***************************************************************************)
(* The wire format as section 6 of the specification states it: a segment  *)
(* is key:value, and its key is the text before the colon.                 *)
(***************************************************************************)
RequiredKeys == {"Tempo_ms", "Tensao", "Corrente", "Rotacao"}

Segments(d) == Split(Strip(d.text), ",")

IsKeyValue(seg) == \E i \in DOMAIN seg : seg[i] = ":"

\* the segment is key:value with exactly this key
HasExactKey(seg, key) == IsKeyValue(seg) /\ Split(seg, ":")[1] = <<key>>

\* a segment the format does not know: no key:value, or another key
IsOtherSegment(seg) == \A key \in RequiredKeys : ~HasExactKey(seg, key)

ContainsKey(d, key) == \E i \in DOMAIN Segments(d) : HasExactKey(Segments(d)[i], key)

\* what processing a list of segments does to the log: nothing, or one row
Effect(segs) ==
    LET r == ParseParts(NoFields, segs)
    IN  IF ~r.raised /\ AllExtracted(r.fields) THEN <<Row(r.fields)>> ELSE <<>>

\* the step just taken received a datagram and none of lines 212-243 raised
ReceivedCleanly ==
    pc = "recv" /\ received' # None /\ received'[1].utf8 /\ ~PrintedKind(ProcessingError.kind)'

\* the rows the step appended
Appended == SubSeq(csv_lines', Len(csv_lines) + 1, Len(csv_lines'))

(***************************************************************************)
(* C5.  A received datagram that lacks one of the four required keys       *)
(* appends no row, prints the malformed-message warning and leaves the     *)
(* session Listening.                                                      *)
(***************************************************************************)
C5_MissingKeyDiscarded ==
    [][(/\ ReceivedCleanly
        /\ \E key \in RequiredKeys : ~ContainsKey(received'[1], key))
       => (/\ csv_lines' = csv_lines
           /\ PrintedKind(MalformedWarning(<<>>).kind)'
           /\ pc' = "check")]_vars

(***************************************************************************)
(* C6.  A datagram that contains the four required keys with well-formed   *)
(* values appends exactly one row: the values of its Tempo_ms, Tensao,     *)
(* Corrente and Rotacao segments, in that order; exchanging two of its     *)
(* segments does not change the row.                                       *)
(***************************************************************************)
C6_ValueOf(d, key) ==
    ValueText(Segments(d)[CHOOSE i \in DOMAIN Segments(d) : HasExactKey(Segments(d)[i], key)])

C6_WellFormed(d) ==
    /\ \A key \in RequiredKeys : ContainsKey(d, key)
    /\ \A i \in DOMAIN Segments(d) :
          LET seg == Segments(d)[i]
          IN  /\ (HasExactKey(seg, "Tempo_ms") \/ HasExactKey(seg, "Rotacao"))
                    => IsInt(ValueText(seg))
              /\ (HasExactKey(seg, "Tensao") \/ HasExactKey(seg, "Corrente"))
                    => IsFloat(ValueText(seg))

C6_ExpectedRow(d) ==
    <<FormatInt(ParseInt(C6_ValueOf(d, "Tempo_ms"))),
      FormatFloat(ParseFloat(C6_ValueOf(d, "Tensao"))),
      FormatFloat(ParseFloat(C6_ValueOf(d, "Corrente"))),
      FormatInt(ParseInt(C6_ValueOf(d, "Rotacao")))>>

C6_Swap(segs, i, j) ==
    [k \in DOMAIN segs |-> IF k = i THEN segs[j] ELSE IF k = j THEN segs[i] ELSE segs[k]]

C6_ValidDatagramOneRow ==
    [][(ReceivedCleanly /\ C6_WellFormed(received'[1]))
       => (/\ Appended = <<C6_ExpectedRow(received'[1])>>
           /\ \A i, j \in DOMAIN Segments(received'[1]) :
                 Effect(C6_Swap(Segments(received'[1]), i, j)) = Appended)]_vars

(***************************************************************************)
(* C7.  An accepted record that is not the first accepted one of the       *)
(* session and whose Tempo_ms is not greater than that of the previously   *)
(* accepted record (the last row of the log, whose Tempo_ms                 *)
(* last_received_timestamp_esp32 holds, line 236) prints the out-of-order  *)
(* warning and is still appended.                                          *)
(***************************************************************************)
C7_OutOfOrderWarned ==
    [][(/\ ReceivedCleanly
        /\ any_accepted
        /\ Len(csv_lines) >= 2
        /\ csv_lines[Len(csv_lines)][1] = FormatInt(last_received_timestamp_esp32)
        /\ Effect(Segments(received'[1])) # <<>>
        /\ last_received_timestamp_esp32' <= last_received_timestamp_esp32)
       => (/\ PrintedKind(OutOfOrderWarning(1, 1).kind)'
           /\ Appended = Effect(Segments(received'[1])))]_vars

(***************************************************************************)
(* C8.  A segment that is not key:value, or whose key is none of the four, *)
(* is ignored: the step that receives a datagram holding such a segment    *)
(* does to the log what the datagram without that segment would do.        *)
(***************************************************************************)
C8_Without(segs, i) == SubSeq(segs, 1, i - 1) \o SubSeq(segs, i + 1, Len(segs))

C8_OtherSegmentsIgnored ==
    [][ReceivedCleanly
       => \A i \in DOMAIN Segments(received'[1]) :
             IsOtherSegment(Segments(received'[1])[i])
                => Appended = Effect(C8_Without(Segments(received'[1]), i))]_vars

(***************************************************************************)
(* C9.  Starting from no file, over any number of runs: the file, once it  *)
(* exists, begins with the header and holds the header exactly once, and   *)
(* every step on an existing file only appends lines to it.                *)
(***************************************************************************)
C9_HeaderCount == Cardinality({i \in DOMAIN csv_lines : csv_lines[i] = CSV_HEADER})

C9_HeaderOnce ==
    /\ [](IF csv_exists
          THEN csv_lines # <<>> /\ csv_lines[1] = CSV_HEADER /\ C9_HeaderCount = 1
          ELSE csv_lines = <<>>)
    /\ [][csv_exists
            => /\ csv_exists'
               /\ Len(csv_lines') >= Len(csv_lines)
               /\ SubSeq(csv_lines', 1, Len(csv_lines)) = csv_lines]_vars

\* a second run has found the file of the first, which holds a row, and has set it up
C9_Witness ==
    /\ run = 2
    /\ pc = "csvready"
    /\ Len(csv_lines) = 2
    /\ csv_lines[2] # CSV_HEADER

(***************************************************************************)
(* C10.  START_ACQUISITION:<duration_ms> has only been sent in a run whose *)
(* endpoint is bound and whose log file exists with its header; a run      *)
(* whose bind fails is over at once: it has sent nothing and has neither   *)
(* created nor changed the file.                                           *)
(***************************************************************************)
C10_StartSent == \E i \in DOMAIN sent : sent[i].command = StartCommand

C10_StartOnlyWhenReady ==
    /\ [](C10_StartSent
            => WasBound /\ csv_exists /\ csv_lines # <<>> /\ csv_lines[1] = CSV_HEADER)
    /\ [](Listening => C10_StartSent)
    /\ [](exit = "bind_error" => pc = "exited" /\ sent = <<>> /\ ~WasBound)
    /\ [][exit' = "bind_error"
            => csv_lines' = csv_lines /\ csv_exists' = csv_exists]_vars

\* the bind fails in a second run, the file of the first run being there
C10_Witness ==
    /\ exit = "bind_error"
    /\ run = 2
    /\ csv_exists
    /\ Len(csv_lines) = 2

(***************************************************************************)
(* C11.  A failed command send is reported and ignored.  Every call of the *)
(* sender makes exactly one transmission attempt, whether it succeeds or   *)
(* not, and prints the matching report; no command is attempted twice in a *)
(* run; the caller goes on to the same statement after a failed send as    *)
(* after a successful one: after START to the first deadline check with a  *)
(* fresh tracker, after STOP to the release of the receiving endpoint,     *)
(* which is the next statement main executes (only Ctrl+C can come first). *)
(***************************************************************************)
C11_SendStep == run' = run /\ sent' # sent

C11_LastSent == sent'[Len(sent')]

C11_FailedSendIgnored ==
    [][/\ C11_SendStep =>
            /\ Len(sent') = Len(sent) + 1
            /\ SubSeq(sent', 1, Len(sent)) = sent
            /\ \A i \in DOMAIN sent : sent[i].command # C11_LastSent.command
            /\ console' = <<IF C11_LastSent.ok THEN CommandSentNotice
                            ELSE CommandErrorNotice>>
            /\ C11_LastSent.command = StartCommand =>
                   /\ pc = "csvready" /\ pc' = "check"
                   /\ last_received_timestamp_esp32' = -1
                   /\ python_script_start_time' = clock'
            /\ C11_LastSent.command = StopCommand =>
                   /\ pc = "finally" /\ pc' = "closing"
            /\ UNCHANGED <<sock_data, csv_exists, csv_lines, closes, exit, message>>
       /\ (pc = "closing" /\ exit' = exit) =>
            /\ pc' = "exited"
            /\ sock_data' = "closed"
            /\ closes' = closes + 1
            /\ sent' = sent
      ]_vars

\* both sends of a run failed, the loop ran in between and the endpoint was released
C11_Witness ==
    /\ pc = "exited"
    /\ exit = "deadline"
    /\ Len(sent) = 2
    /\ ~sent[1].ok /\ sent[1].command = StartCommand
    /\ ~sent[2].ok /\ sent[2].command = StopCommand
    /\ sock_data = "closed"
    /\ closes = 1

(***************************************************************************)
(* C12.  A receive timeout is not fatal and changes nothing but the clock: *)
(* the iteration that prints the "no data" notice appends no row, leaves   *)
(* the log, the last-accepted tracker and everything else of the session   *)
(* as they were, advances the clock by the receive timeout, and keeps the  *)
(* session Listening at the deadline check, which is the next statement    *)
(* executed (it either goes on to the next receive or ends the loop with   *)
(* the deadline exceeded; only Ctrl+C can come first).                     *)
(***************************************************************************)
C12_TimeoutChangesOnlyClock ==
    [][/\ (pc = "recv" /\ Printed(NoDataNotice)') =>
            /\ csv_lines' = csv_lines
            /\ last_received_timestamp_esp32' = last_received_timestamp_esp32
            /\ clock' = clock + RECV_TIMEOUT_SECONDS
            /\ pc' = "check"
            /\ Listening'
            /\ UNCHANGED <<run, python_script_start_time, message, sock_data, csv_exists,
                           sent, closes, exit, any_accepted>>
       /\ (pc = "check" /\ Printed(NoDataNotice) /\ exit' # "interrupt") =>
            IF Elapsed > ACQUISITION_DURATION_SECONDS + SAFETY_MARGIN_SECONDS
            THEN pc' = "finally" /\ exit' = "deadline"
            ELSE pc' = "recv" /\ exit' = exit
      ]_vars

\* a timeout after a record was accepted and appended: the tracker and the row are kept
C12_Witness ==
    /\ pc = "check"
    /\ console = <<NoDataNotice>>
    /\ any_accepted
    /\ last_received_timestamp_esp32 = 1
    /\ Len(csv_lines) = 2
    /\ exit = "running"

(***************************************************************************)
(* C13.  The log is append-only and in arrival order.  Every step leaves   *)
(* the log unchanged or extends it by exactly one line at the end, the     *)
(* lines already there staying as they are; during the loop the line added *)
(* is the row of the datagram received by that very step, so rows stand in *)
(* the order of receipt; and a datagram processed without error and not    *)
(* reported as malformed always adds its row, whatever its Tempo_ms is     *)
(* compared with the rows before it and also when an equal row is already  *)
(* in the log (no reordering, no de-duplication).                          *)
(***************************************************************************)
C13_AppendOnlyArrivalOrder ==
    [][/\ \/ csv_lines' = csv_lines
          \/ /\ Len(csv_lines') = Len(csv_lines) + 1
             /\ SubSeq(csv_lines', 1, Len(csv_lines)) = csv_lines
       /\ (Listening /\ csv_lines' # csv_lines) =>
            /\ pc = "recv"
            /\ received' # None
            /\ csv_lines'[Len(csv_lines')] \in C4_RowsOf[received'[1]]
       /\ (ReceivedCleanly /\ ~PrintedKind(MalformedWarning(<<>>).kind)') =>
            /\ Len(csv_lines') = Len(csv_lines) + 1
            /\ csv_lines'[Len(csv_lines')][1] = FormatInt(last_received_timestamp_esp32')
      ]_vars

\* two rows of one run, the later one with a Tempo_ms not above the earlier one's
C13_Witness ==
    /\ run = 1
    /\ Len(csv_lines) = 3
    /\ received # None
    /\ csv_lines[3] \in C4_RowsOf[received[1]]
    /\ IntOf(csv_lines[3][1]) <= IntOf(csv_lines[2][1])

(***************************************************************************)
(* C14.  When processing a received datagram raised an exception that the  *)
(* handler of lines 248-250 reported, the raw message printed with the     *)
(* error is the payload of that datagram, the one just received.           *)
(***************************************************************************)
C14_RawPayloadOfCause ==
    (/\ pc = "check"
     /\ received # None
     /\ Printed(ProcessingError))
    => Printed(RawMessage(Strip(received[1].text)))

(***************************************************************************)
(* C15.  The timeout notice is printed, and the loop left with it, only by *)
(* a deadline check at which the time elapsed since the loop was entered   *)
(* is strictly greater than duration + 5 s; a deadline check at which the  *)
(* elapsed time is at most duration + 5 s, if no Ctrl+C arrives, leaves    *)
(* the session Listening and goes on to another receive attempt.           *)
(***************************************************************************)
C15_Limit == ACQUISITION_DURATION_SECONDS + SAFETY_MARGIN_SECONDS

C15_DeadlineStrict ==
    [][/\ (Printed(DeadlineNotice)' \/ (exit' = "deadline" /\ exit # "deadline")) =>
            /\ pc = "check"
            /\ Elapsed > C15_Limit
            /\ console' = <<DeadlineNotice>>
            /\ exit' = "deadline"
            /\ pc' = "finally"
       /\ (pc = "check" /\ Elapsed <= C15_Limit /\ exit' # "interrupt") =>
            /\ pc' = "recv"
            /\ exit' = "running"
            /\ ~Printed(DeadlineNotice)'
       /\ (Listening /\ ~Listening') =>
            \/ exit' = "deadline" /\ Elapsed > C15_Limit
            \/ exit' \in {"interrupt", "error"}
      ]_vars

\* exactly at the limit the loop is still receiving
C15_Witness ==
    /\ pc = "recv"
    /\ Elapsed = C15_Limit
    /\ exit = "running"

(***************************************************************************)
(* C16.  In every run the events are ordered START, then receive attempts  *)
(* and row appends, then STOP, then the release of the receiving endpoint. *)
(* The commands handed to the sender in a run are START, then STOP, in     *)
(* that order and at most once each; a receive attempt is made, and a row  *)
(* appended, only when START has been sent and STOP has not; once STOP has *)
(* been sent no receive attempt is made and the log does not change; and   *)
(* the endpoint is closed only after STOP has been sent.                   *)
(***************************************************************************)
C16_Commands == [i \in DOMAIN sent |-> sent[i].command]

C16_ReceiveAttempt == pc = "recv" /\ pc' # "recv"

C16_EventOrder ==
    /\ [](/\ C16_Commands \in {<<>>, <<StartCommand>>, <<StartCommand, StopCommand>>}
          /\ Listening => C16_Commands = <<StartCommand>>
          /\ sock_data = "closed" => C16_Commands = <<StartCommand, StopCommand>>
          /\ StopsSent > 0 => pc \in {"closing", "exited"})
    /\ [][/\ (C16_ReceiveAttempt \/ (run' = run /\ pc # "bound" /\ csv_lines' # csv_lines))
               => (C16_Commands = <<StartCommand>> /\ sent' = sent)
          /\ (StopsSent > 0 /\ run' = run)
               => (/\ csv_lines' = csv_lines
                   /\ received' = received
                   /\ pc' \in {"closing", "exited"}
                   /\ sent' = sent)
          /\ (closes' # closes /\ run' = run)
               => (/\ C16_Commands = <<StartCommand, StopCommand>>
                   /\ closes' = closes + 1
                   /\ pc' = "exited")]_vars

\* a run that sent START, appended a row, sent STOP and released the endpoint
C16_Witness ==
    /\ run = 1
    /\ pc = "exited"
    /\ Len(sent) = 2
    /\ Len(csv_lines) >= 2
    /\ any_accepted
    /\ sock_data = "closed"

(***************************************************************************)
(* C17.  Once a record has been accepted in the session, the last-accepted *)
(* tracker no longer has the value that stands for "nothing accepted yet"  *)
(* (line 202) for as long as the session is Listening.                     *)
(***************************************************************************)
C17_MarkerNeverAccepted ==
    (Listening /\ any_accepted /\ DataRows # {}) => last_received_timestamp_esp32 # -1

(***************************************************************************)
(* C18.  At the start of every loop iteration the last-accepted tracker    *)
(* equals the Tempo_ms of the most recent row appended to the log in this  *)
(* session, or the marker of line 202 when none was.  The loop is entered  *)
(* with the marker and no row of the session, so this holds at the start   *)
(* of every iteration exactly when every iteration keeps it: an iteration  *)
(* that appends a row leaves the tracker at that row's Tempo_ms, and one   *)
(* that appends none (timeout, discarded datagram, failed append) leaves   *)
(* the tracker as it was.                                                  *)
(***************************************************************************)
C18_TrackerIsLastRow ==
    [][(Listening /\ Listening') =>
          IF csv_lines' # csv_lines
          THEN last_received_timestamp_esp32' = IntOf(csv_lines'[Len(csv_lines')][1])
          ELSE last_received_timestamp_esp32' = last_received_timestamp_esp32]_vars

(***************************************************************************)
(* C18, as the code has it.  At the start of every loop iteration the      *)
(* tracker equals the Tempo_ms of the most recent record accepted in this  *)
(* session (a decoded datagram of which all four fields were extracted),   *)
(* or the marker when none was accepted: an iteration that accepts a       *)
(* record leaves the tracker at its Tempo_ms, whether or not the row could *)
(* be appended, and any other iteration leaves the tracker as it was.      *)
(***************************************************************************)
\* for each datagram of the model, the record it is accepted as, if any
C18_RecordOf == [d \in Datagrams |-> IF d.utf8 THEN Effect(Segments(d)) ELSE <<>>]

C18_Accepts == pc = "recv" /\ received' # None /\ C18_RecordOf[received'[1]] # <<>>

C18_TrackerIsLastAccepted ==
    /\ []((Listening /\ ~any_accepted) => last_received_timestamp_esp32 = -1)
    /\ [][(Listening /\ Listening') =>
            IF C18_Accepts
            THEN last_received_timestamp_esp32' = IntOf(C18_RecordOf[received'[1]][1][1])
            ELSE last_received_timestamp_esp32' = last_received_timestamp_esp32]_vars

\* the first record of a run was accepted and its append failed: the tracker holds its
\* Tempo_ms and the log has no row
C18_Witness ==
    /\ run = 1
    /\ pc = "check"
    /\ received = Some(Valid("1"))
    /\ Printed(ProcessingError)
    /\ last_received_timestamp_esp32 = 1
    /\ Len(csv_lines) = 1

=============================================================================
